---- MODULE Spec2Model ----
(***************************************************************************)
(* Subtitle segmentation engine of src/src/lib/videoRenderer.ts:           *)
(* splitSubtitles (word-stream scan + mergeShortSegments),                 *)
(* splitTextByDuration (sentence / natural-break / word-count splitting)   *)
(* and recalculateTimings; the cancellation of renderVideoWithSubtitles.   *)
(*                                                                         *)
(* Numbers.  A JavaScript number is modelled as an exact rational          *)
(* [n |-> numerator, d |-> denominator] in lowest terms with d > 0, plus   *)
(* the three IEEE special values d = 0: n = 0 is NaN, n = 1 is +Infinity,  *)
(* n = -1 is -Infinity.  Times are in seconds.  Rounding of doubles is not *)
(* modelled: every arithmetic result is the exact value.                   *)
(*                                                                         *)
(* Text.  A string is a sequence of characters; a character is a TLA+      *)
(* string naming it.  ASCII characters name themselves, Hangul syllables   *)
(* are named by their romanisation ("geu","ri","go" is the word 그리고),   *)
(* other punctuation by its code point ("U+3002").                         *)
(***************************************************************************)
EXTENDS Integers, Sequences, FiniteSets, TLC

VARIABLES
    pc,                \* position in the running call
    words,             \* sttResult.words of splitSubtitles
    opts,              \* { ...DEFAULT_OPTIONS, ...options }
    i,                 \* loop index of the running loop
    currentWords,      \* word buffer of the scan
    currentStartTime,  \* start time of the segment being accumulated
    segments,          \* the local `segments` array (pre-merge)
    result,            \* the returned sequence
    threw,             \* TRUE when the call ended with an exception
    nextId,            \* source of fresh ids (generateId)
    text,              \* `text` argument of splitTextByDuration
    totalDuration,     \* `totalDuration` argument
    sentences,         \* result of splitIntoSentences
    currentTime,       \* running time of the duration path / recalculation
    input,             \* `segments` argument of recalculateTimings
    abortSignal,       \* the AbortSignal given to renderVideoWithSubtitles
    abortedAt,         \* state of the promise when the signal was aborted
    listening,         \* TRUE once the 'abort' listener is registered
    cancelled,         \* the local `cancelled`
    promise,           \* state of the returned promise
    video,             \* the local `video` and its playback state
    mediaRecorder,     \* the local `mediaRecorder` and its state
    stopEvent,         \* TRUE while a 'stop' event of the recorder is queued
    audioCtx,          \* the local `audioCtx` and its state
    frames,            \* frames drawn by renderFrame
    stage,             \* stage of the last progress event reported
    lateComplete       \* TRUE when 'complete' was reported after an abort

\* the variables of renderVideoWithSubtitles
renderVars == <<abortSignal, abortedAt, listening, cancelled, promise, video,
                mediaRecorder, stopEvent, audioCtx, frames, stage,
                lateComplete>>

\* the variables of the segmentation engine, pc apart
splitVars == <<words, opts, i, currentWords, currentStartTime, segments,
               result, threw, nextId, text, totalDuration, sentences,
               currentTime, input>>

vars == <<pc, words, opts, i, currentWords, currentStartTime, segments,
          result, threw, nextId, text, totalDuration, sentences,
          currentTime, input, abortSignal, abortedAt, listening, cancelled,
          promise, video, mediaRecorder, stopEvent, audioCtx, frames, stage,
          lateComplete>>

-----------------------------------------------------------------------------
(* Bounds of the model *)

MaxWords == 3
MaxTokens == 5
MaxMerge == 4
MaxCalls == 4
MaxFrames == 4
MaxSegs == 3

-----------------------------------------------------------------------------
(* JavaScript numbers *)

Abs(a) == IF a < 0 THEN -a ELSE a

Sign(a) == IF a < 0 THEN -1 ELSE IF a > 0 THEN 1 ELSE 0

RECURSIVE GCD(_, _)
GCD(a, b) == IF b = 0 THEN a ELSE GCD(b, a % b)

Norm(n, d) ==
    IF d = 0 THEN [n |-> Sign(n), d |-> 0]
    ELSE LET g == GCD(Abs(n), Abs(d))
             s == Sign(d)
         IN  [n |-> s * (n \div g), d |-> s * (d \div g)]

Q(n, d) == Norm(n, d)

Zero == Q(0, 1)

NaN == [n |-> 0, d |-> 0]

Infinity == [n |-> 1, d |-> 0]

IsNaN(x) == x.d = 0 /\ x.n = 0

IsFinite(x) == x.d > 0

Neg(x) == [n |-> -x.n, d |-> x.d]

Add(x, y) ==
    IF x.d = 0 /\ y.d = 0
    THEN (IF x.n = y.n THEN x ELSE NaN)
    ELSE Norm(x.n * y.d + y.n * x.d, x.d * y.d)

Sub(x, y) == Add(x, Neg(y))

Mul(x, y) == Norm(x.n * y.n, x.d * y.d)

Div(x, y) ==
    IF y.n < 0 THEN Norm((-x.n) * y.d, x.d * (-y.n))
    ELSE Norm(x.n * y.d, x.d * y.n)

Lt(x, y) ==
    /\ ~IsNaN(x)
    /\ ~IsNaN(y)
    /\ IF x.d = 0 /\ y.d = 0 THEN x.n < y.n ELSE x.n * y.d < y.n * x.d

Le(x, y) ==
    /\ ~IsNaN(x)
    /\ ~IsNaN(y)
    /\ IF x.d = 0 /\ y.d = 0 THEN x.n <= y.n ELSE x.n * y.d <= y.n * x.d

Gt(x, y) == Lt(y, x)

Ge(x, y) == Le(y, x)

\* Math.ceil of a finite number, as an integer
Ceil(x) == -((-x.n) \div x.d)

-----------------------------------------------------------------------------
(* Strings *)

\* the characters /\s/ matches, among those of the model
Whitespace == {" ", "\t"}

IsSpace(c) == c \in Whitespace

\* s.replace(/\s/g, '')
StripSpaces(s) == SelectSeq(s, LAMBDA c : ~IsSpace(c))

\* s.replace(/\s/g, '').length
CharCount(s) == Len(StripSpaces(s))

RECURSIVE TrimLeft(_)
TrimLeft(s) ==
    IF s # <<>> /\ IsSpace(s[1]) THEN TrimLeft(Tail(s)) ELSE s

RECURSIVE TrimRight(_)
TrimRight(s) ==
    IF s # <<>> /\ IsSpace(s[Len(s)])
    THEN TrimRight(SubSeq(s, 1, Len(s) - 1))
    ELSE s

\* s.trim()
Trim(s) == TrimLeft(TrimRight(s))

\* strs.join(' ')
RECURSIVE Join(_)
Join(strs) ==
    IF strs = <<>> THEN <<>>
    ELSE IF Len(strs) = 1 THEN strs[1]
    ELSE strs[1] \o <<" ">> \o Join(Tail(strs))

\* s has the string t at 0-based position q
HasAt(s, q, t) ==
    /\ q + Len(t) <= Len(s)
    /\ \A k \in 1..Len(t) : s[q + k] = t[k]

EndsWith(s, t) == Len(t) <= Len(s) /\ HasAt(s, Len(s) - Len(t), t)

StartsWith(s, t) == HasAt(s, 0, t)

\* 0-based index of the first non-space character at or after q
RECURSIVE SkipSpaces(_, _)
SkipSpaces(s, q) ==
    IF q < Len(s) /\ IsSpace(s[q + 1]) THEN SkipSpaces(s, q + 1) ELSE q

-----------------------------------------------------------------------------
(* The value `undefined` *)

Undefined == [undefined |-> TRUE]

-----------------------------------------------------------------------------
(* DEFAULT_OPTIONS and the patterns *)

\* the characters of sentenceDelimiters, /[.?!。？！]/
SentenceDelimiterChars == {".", "?", "!", "U+3002", "U+FF1F", "U+FF01"}

\* the character class of naturalBreakPattern, /[,，、:;]/
NaturalBreakChars == {",", "U+FF0C", "U+3001", ":", ";"}

\* the conjunctions of naturalBreakPattern, in the order of the alternation
NaturalBreakConjunctions ==
    << <<"geu", "ri", "go">>, <<"geu", "rae", "seo">>, <<"ha", "ji", "man">>,
       <<"geu", "reo", "na">>, <<"geu", "reon", "de">>, <<"tto", "han">>,
       <<"geu", "ri", "go", "neun">>, <<"geu", "rae", "seo", "neun">>,
       <<"geun", "de">>, <<"a", "ni", "myeon">>, <<"tto", "neun">> >>

\* the alternatives of KOREAN_SENTENCE_ENDINGS
KOREAN_SENTENCE_ENDINGS ==
    { <<"da">>, <<"yo">>, <<"jyo">>, <<"ne">>, <<"na">>, <<"kka">>, <<"ji">>,
      <<"go">>, <<"myeo">>, <<"myeon", "seo">>, <<"neun", "de">>,
      <<"ni", "kka">>, <<"geo", "deun">>, <<"janh", "a">>, <<"rae">>,
      <<"se", "yo">>, <<"seup", "ni", "da">>, <<"hap", "ni", "da">>,
      <<"ip", "ni", "da">>, <<"doep", "ni", "da">>, <<"ni", "da">> }

\* the alternatives of the startsNewClause pattern
ClauseStartWords ==
    { <<"geu", "ri", "go">>, <<"geu", "rae", "seo">>, <<"ha", "ji", "man">>,
      <<"geu", "reo", "na">>, <<"geu", "reon", "de">>, <<"tto", "han">>,
      <<"geun", "de">>, <<"a", "ni", "myeon">>, <<"tto", "neun">>,
      <<"geu", "reom">>, <<"ja">>, <<"i", "je">>, <<"geu", "ttae">> }

DEFAULT_OPTIONS ==
    [minDuration |-> Q(3, 2), targetDuration |-> Q(5, 2),
     maxDuration |-> Q(7, 2), maxCharacters |-> 50]

\* the silence threshold of rule 5, 0.5 seconds
SilenceGap == Q(1, 2)

\* opts.sentenceDelimiters.test(s)
TestSentenceDelimiters(s) ==
    \E k \in 1..Len(s) : s[k] \in SentenceDelimiterChars

\* KOREAN_SENTENCE_ENDINGS.test(s): an ending, then spaces, then the end
TestKoreanSentenceEndings(s) ==
    \E e \in KOREAN_SENTENCE_ENDINGS : EndsWith(TrimRight(s), e)

\* end (0-based, exclusive) of a match of naturalBreakPattern that starts at
\* position q of s, or -1; the second alternative is \s+(conjunction)\s+
ConjunctionAt(s, q) ==
    LET a == SkipSpaces(s, q)
        ok(c) ==
            /\ HasAt(s, a, NaturalBreakConjunctions[c])
            /\ a + Len(NaturalBreakConjunctions[c]) < Len(s)
            /\ IsSpace(s[a + Len(NaturalBreakConjunctions[c]) + 1])
        cs == {c \in 1..Len(NaturalBreakConjunctions) : ok(c)}
    IN  IF q < Len(s) /\ IsSpace(s[q + 1]) /\ cs # {}
        THEN LET c == CHOOSE x \in cs : \A y \in cs : x <= y
             IN  [end |-> SkipSpaces(s, a + Len(NaturalBreakConjunctions[c])),
                  capture |-> NaturalBreakConjunctions[c]]
        ELSE [end |-> -1, capture |-> <<>>]

\* opts.naturalBreakPattern.test(s)
TestNaturalBreak(s) ==
    \/ \E k \in 1..Len(s) : s[k] \in NaturalBreakChars
    \/ \E q \in 0..(Len(s) - 1) : ConjunctionAt(s, q).end # -1

\* /^(그리고|...)/.test(s)
TestStartsNewClause(s) == \E c \in ClauseStartWords : StartsWith(s, c)

-----------------------------------------------------------------------------
(* checkShouldSplit, createSegment, mergeShortSegments *)

\* checkShouldSplit with the duration ceiling tested by > in place of >=
checkShouldSplit_StrictMax(currentDuration, currentCharCount, currentText, word, nextWord, o) ==
    IF nextWord = Undefined THEN TRUE
    ELSE LET nextGap == Sub(nextWord.startTime, word.endTime)
             isSentenceEnd ==
                 \/ TestSentenceDelimiters(word.word)
                 \/ TestKoreanSentenceEndings(word.word)
             isNaturalBreak == TestNaturalBreak(currentText)
         IN  IF Gt(currentDuration, o.maxDuration) THEN TRUE
             ELSE IF currentCharCount >= o.maxCharacters THEN TRUE
             ELSE IF isSentenceEnd /\ Ge(currentDuration, o.minDuration) THEN TRUE
             ELSE IF isNaturalBreak /\ Ge(currentDuration, o.targetDuration) THEN TRUE
             ELSE IF Ge(nextGap, SilenceGap) /\ Ge(currentDuration, o.minDuration) THEN TRUE
             ELSE IF Ge(currentDuration, o.targetDuration)
                     /\ TestStartsNewClause(nextWord.word) THEN TRUE
             ELSE FALSE

\* checkShouldSplit with the target duration splitting whatever the next word is
checkShouldSplit_TargetForces(currentDuration, currentCharCount, currentText, word, nextWord, o) ==
    IF nextWord = Undefined THEN TRUE
    ELSE LET nextGap == Sub(nextWord.startTime, word.endTime)
             isSentenceEnd ==
                 \/ TestSentenceDelimiters(word.word)
                 \/ TestKoreanSentenceEndings(word.word)
             isNaturalBreak == TestNaturalBreak(currentText)
         IN  IF Ge(currentDuration, o.maxDuration) THEN TRUE
             ELSE IF currentCharCount >= o.maxCharacters THEN TRUE
             ELSE IF isSentenceEnd /\ Ge(currentDuration, o.minDuration) THEN TRUE
             ELSE IF isNaturalBreak /\ Ge(currentDuration, o.targetDuration) THEN TRUE
             ELSE IF Ge(nextGap, SilenceGap) /\ Ge(currentDuration, o.minDuration) THEN TRUE
             ELSE IF Ge(currentDuration, o.targetDuration) THEN TRUE
             ELSE FALSE

\* checkShouldSplit answering false where there is no next word
checkShouldSplit_NoLastWordRule(currentDuration, currentCharCount, currentText, word, nextWord, o) ==
    IF nextWord = Undefined THEN FALSE
    ELSE LET nextGap == Sub(nextWord.startTime, word.endTime)
             isSentenceEnd ==
                 \/ TestSentenceDelimiters(word.word)
                 \/ TestKoreanSentenceEndings(word.word)
             isNaturalBreak == TestNaturalBreak(currentText)
         IN  IF Ge(currentDuration, o.maxDuration) THEN TRUE
             ELSE IF currentCharCount >= o.maxCharacters THEN TRUE
             ELSE IF isSentenceEnd /\ Ge(currentDuration, o.minDuration) THEN TRUE
             ELSE IF isNaturalBreak /\ Ge(currentDuration, o.targetDuration) THEN TRUE
             ELSE IF Ge(nextGap, SilenceGap) /\ Ge(currentDuration, o.minDuration) THEN TRUE
             ELSE IF Ge(currentDuration, o.targetDuration)
                     /\ TestStartsNewClause(nextWord.word) THEN TRUE
             ELSE FALSE

\* checkShouldSplit with the character ceiling tested by > in place of >=
checkShouldSplit_StrictCharCeiling(currentDuration, currentCharCount, currentText, word, nextWord, o) ==
    IF nextWord = Undefined THEN TRUE
    ELSE LET nextGap == Sub(nextWord.startTime, word.endTime)
             isSentenceEnd ==
                 \/ TestSentenceDelimiters(word.word)
                 \/ TestKoreanSentenceEndings(word.word)
             isNaturalBreak == TestNaturalBreak(currentText)
         IN  IF Ge(currentDuration, o.maxDuration) THEN TRUE
             ELSE IF currentCharCount > o.maxCharacters THEN TRUE
             ELSE IF isSentenceEnd /\ Ge(currentDuration, o.minDuration) THEN TRUE
             ELSE IF isNaturalBreak /\ Ge(currentDuration, o.targetDuration) THEN TRUE
             ELSE IF Ge(nextGap, SilenceGap) /\ Ge(currentDuration, o.minDuration) THEN TRUE
             ELSE IF Ge(currentDuration, o.targetDuration)
                     /\ TestStartsNewClause(nextWord.word) THEN TRUE
             ELSE FALSE

\* checkShouldSplit with the natural break honoured from minDuration on
checkShouldSplit_BreakAtMin(currentDuration, currentCharCount, currentText, word, nextWord, o) ==
    IF nextWord = Undefined THEN TRUE
    ELSE LET nextGap == Sub(nextWord.startTime, word.endTime)
             isSentenceEnd ==
                 \/ TestSentenceDelimiters(word.word)
                 \/ TestKoreanSentenceEndings(word.word)
             isNaturalBreak == TestNaturalBreak(currentText)
         IN  IF Ge(currentDuration, o.maxDuration) THEN TRUE
             ELSE IF currentCharCount >= o.maxCharacters THEN TRUE
             ELSE IF isSentenceEnd /\ Ge(currentDuration, o.minDuration) THEN TRUE
             ELSE IF isNaturalBreak /\ Ge(currentDuration, o.minDuration) THEN TRUE
             ELSE IF Ge(nextGap, SilenceGap) /\ Ge(currentDuration, o.minDuration) THEN TRUE
             ELSE IF Ge(currentDuration, o.targetDuration)
                     /\ TestStartsNewClause(nextWord.word) THEN TRUE
             ELSE FALSE

\* checkShouldSplit with the sentence end honoured from targetDuration on
checkShouldSplit_SentenceEndAtTarget(currentDuration, currentCharCount, currentText, word, nextWord, o) ==
    IF nextWord = Undefined THEN TRUE
    ELSE LET nextGap == Sub(nextWord.startTime, word.endTime)
             isSentenceEnd ==
                 \/ TestSentenceDelimiters(word.word)
                 \/ TestKoreanSentenceEndings(word.word)
             isNaturalBreak == TestNaturalBreak(currentText)
         IN  IF Ge(currentDuration, o.maxDuration) THEN TRUE
             ELSE IF currentCharCount >= o.maxCharacters THEN TRUE
             ELSE IF isSentenceEnd /\ Ge(currentDuration, o.targetDuration) THEN TRUE
             ELSE IF isNaturalBreak /\ Ge(currentDuration, o.targetDuration) THEN TRUE
             ELSE IF Ge(nextGap, SilenceGap) /\ Ge(currentDuration, o.minDuration) THEN TRUE
             ELSE IF Ge(currentDuration, o.targetDuration)
                     /\ TestStartsNewClause(nextWord.word) THEN TRUE
             ELSE FALSE

\* checkShouldSplit splitting on a silence whatever the elapsed time
checkShouldSplit_GapAlone(currentDuration, currentCharCount, currentText, word, nextWord, o) ==
    IF nextWord = Undefined THEN TRUE
    ELSE LET nextGap == Sub(nextWord.startTime, word.endTime)
             isSentenceEnd ==
                 \/ TestSentenceDelimiters(word.word)
                 \/ TestKoreanSentenceEndings(word.word)
             isNaturalBreak == TestNaturalBreak(currentText)
         IN  IF Ge(currentDuration, o.maxDuration) THEN TRUE
             ELSE IF currentCharCount >= o.maxCharacters THEN TRUE
             ELSE IF isSentenceEnd /\ Ge(currentDuration, o.minDuration) THEN TRUE
             ELSE IF isNaturalBreak /\ Ge(currentDuration, o.targetDuration) THEN TRUE
             ELSE IF Ge(nextGap, SilenceGap) THEN TRUE
             ELSE IF Ge(currentDuration, o.targetDuration)
                     /\ TestStartsNewClause(nextWord.word) THEN TRUE
             ELSE FALSE

checkShouldSplit(currentDuration, currentCharCount, currentText, word, nextWord, o) ==
    IF nextWord = Undefined THEN TRUE
    ELSE LET nextGap == Sub(nextWord.startTime, word.endTime)
             isSentenceEnd ==
                 \/ TestSentenceDelimiters(word.word)
                 \/ TestKoreanSentenceEndings(word.word)
             isNaturalBreak == TestNaturalBreak(currentText)
         IN  IF Ge(currentDuration, o.maxDuration) THEN TRUE
             ELSE IF currentCharCount >= o.maxCharacters THEN TRUE
             ELSE IF isSentenceEnd /\ Ge(currentDuration, o.minDuration) THEN TRUE
             ELSE IF isNaturalBreak /\ Ge(currentDuration, o.targetDuration) THEN TRUE
             ELSE IF Ge(nextGap, SilenceGap) /\ Ge(currentDuration, o.minDuration) THEN TRUE
             ELSE IF Ge(currentDuration, o.targetDuration)
                     /\ TestStartsNewClause(nextWord.word) THEN TRUE
             ELSE FALSE

\* words.map(w => w.word)
WordTexts(ws) == [k \in 1..Len(ws) |-> ws[k].word]

createSegment(ws, startTime, id) ==
    LET endTime == ws[Len(ws)].endTime
    IN  [id |-> id,
         text |-> Trim(Join(WordTexts(ws))),
         startTime |-> startTime,
         endTime |-> endTime,
         words |-> ws,
         duration |-> Sub(endTime, startTime)]

\* ShouldMerge without the test of the summed duration against maxDuration
ShouldMerge_IgnoresCeiling(current, next, o) ==
    /\ Lt(current.duration, o.minDuration)
    /\ next # Undefined

\* the condition under which the merger fuses current and next
ShouldMerge(current, next, o) ==
    /\ Lt(current.duration, o.minDuration)
    /\ next # Undefined
    /\ Le(Add(current.duration, next.duration), o.maxDuration)

\* MergedSegment with the duration taken as the sum of the two durations
MergedSegment_DurationIsSum(current, next, id) ==
    [id |-> id,
     text |-> Trim(current.text \o <<" ">> \o next.text),
     startTime |-> current.startTime,
     endTime |-> next.endTime,
     words |-> current.words \o next.words,
     duration |-> Add(current.duration, next.duration)]

\* MergedSegment with the two texts joined without the space
MergedSegment_TextWithoutSpace(current, next, id) ==
    [id |-> id,
     text |-> Trim(current.text \o next.text),
     startTime |-> current.startTime,
     endTime |-> next.endTime,
     words |-> current.words \o next.words,
     duration |-> Sub(next.endTime, current.startTime)]

\* MergedSegment with the words of `next` left out
MergedSegment_DropsNextWords(current, next, id) ==
    [id |-> id,
     text |-> Trim(current.text \o <<" ">> \o next.text),
     startTime |-> current.startTime,
     endTime |-> next.endTime,
     words |-> current.words,
     duration |-> Sub(next.endTime, current.startTime)]

\* the segment the merger pushes for a fused pair
MergedSegment(current, next, id) ==
    [id |-> id,
     text |-> Trim(current.text \o <<" ">> \o next.text),
     startTime |-> current.startTime,
     endTime |-> next.endTime,
     words |-> current.words \o next.words,
     duration |-> Sub(next.endTime, current.startTime)]

\* MergeLoop giving a fresh id to the segments it keeps
RECURSIVE MergeLoop_FreshIdOnKeep(_, _, _, _, _)
MergeLoop_FreshIdOnKeep(segs, k, acc, id, o) ==
    IF k > Len(segs) THEN [result |-> acc, nextId |-> id]
    ELSE LET current == segs[k]
             next == IF k + 1 <= Len(segs) THEN segs[k + 1] ELSE Undefined
         IN  IF ShouldMerge(current, next, o)
             THEN MergeLoop_FreshIdOnKeep(segs, k + 2,
                            Append(acc, MergedSegment(current, next, id)),
                            id + 1, o)
             ELSE MergeLoop_FreshIdOnKeep(segs, k + 1,
                            Append(acc, [current EXCEPT !.id = id]),
                            id + 1, o)

\* MergeLoop advancing by one after a merge
RECURSIVE MergeLoop_StepsOneAfterMerge(_, _, _, _, _)
MergeLoop_StepsOneAfterMerge(segs, k, acc, id, o) ==
    IF k > Len(segs) THEN [result |-> acc, nextId |-> id]
    ELSE LET current == segs[k]
             next == IF k + 1 <= Len(segs) THEN segs[k + 1] ELSE Undefined
         IN  IF ShouldMerge(current, next, o)
             THEN MergeLoop_StepsOneAfterMerge(segs, k + 1,
                            Append(acc, MergedSegment(current, next, id)),
                            id + 1, o)
             ELSE MergeLoop_StepsOneAfterMerge(segs, k + 1,
                            Append(acc, current), id, o)

\* the while loop of mergeShortSegments from index k (1-based), ids from id
RECURSIVE MergeLoop(_, _, _, _, _)
MergeLoop(segs, k, acc, id, o) ==
    IF k > Len(segs) THEN [result |-> acc, nextId |-> id]
    ELSE LET current == segs[k]
             next == IF k + 1 <= Len(segs) THEN segs[k + 1] ELSE Undefined
         IN  IF ShouldMerge(current, next, o)
             THEN MergeLoop(segs, k + 2,
                            Append(acc, MergedSegment(current, next, id)),
                            id + 1, o)
             ELSE MergeLoop(segs, k + 1, Append(acc, current), id, o)

\* mergeShortSegments returning early on two segments as well
mergeShortSegments_EarlyReturnOnTwo(segs, id, o) ==
    IF Len(segs) <= 2 THEN [result |-> segs, nextId |-> id]
    ELSE MergeLoop(segs, 1, <<>>, id, o)

mergeShortSegments(segs, id, o) ==
    IF Len(segs) <= 1 THEN [result |-> segs, nextId |-> id]
    ELSE MergeLoop(segs, 1, <<>>, id, o)

-----------------------------------------------------------------------------
(* Inputs of splitSubtitles *)

\* word texts: plain, sentence-final, with a comma, a conjunction
Vocabulary ==
    { <<"a", "a", "a">>, <<"a", ".">>, <<"a", ",">>, <<"geu", "ri", "go">> }

\* endTime - startTime of a word
WordDurations == {Q(1, 2), Q(2, 1)}

\* startTime of a word minus endTime of the word before it: an overlap,
\* none, a silence
WordOffsets == {Q(-1, 2), Zero, Q(1, 1)}

\* the option sets: the defaults; a low character ceiling with a minimum
\* above half the maximum; short durations
OptionSets ==
    { DEFAULT_OPTIONS,
      [minDuration |-> Q(5, 2), targetDuration |-> Q(3, 1),
       maxDuration |-> Q(7, 2), maxCharacters |-> 3],
      [minDuration |-> Q(1, 2), targetDuration |-> Q(1, 1),
       maxDuration |-> Q(5, 2), maxCharacters |-> 5] }

\* what a word list is drawn from: per word its text, its duration and its
\* offset from the end of the word before it
WordChoices == Vocabulary \X WordDurations \X WordOffsets

\* the word list described by the choices cs, the first word starting at 0
RECURSIVE BuildWords(_, _, _)
BuildWords(cs, k, acc) ==
    IF k > Len(cs) THEN acc
    ELSE LET start == IF k = 1 THEN Zero
                      ELSE Add(acc[k - 1].endTime, cs[k][3])
         IN  BuildWords(cs, k + 1,
                        Append(acc, [word |-> cs[k][1], startTime |-> start,
                                     endTime |-> Add(start, cs[k][2])]))

\* the input constraint of splitSubtitles: start times never decrease
Chronological(ws) ==
    \A k \in 1..(Len(ws) - 1) : Le(ws[k].startTime, ws[k + 1].startTime)

-----------------------------------------------------------------------------
(* splitSubtitles *)

\* values of the variables a call does not use
\* no call of renderVideoWithSubtitles is in progress
IdleRender ==
    /\ abortSignal = "none"
    /\ abortedAt = "never"
    /\ listening = FALSE
    /\ cancelled = FALSE
    /\ promise = "pending"
    /\ video = "none"
    /\ mediaRecorder = "none"
    /\ stopEvent = FALSE
    /\ audioCtx = "none"
    /\ frames = 0
    /\ stage = "none"
    /\ lateComplete = FALSE

NoWords == <<>>
NoText == <<>>

IdleDuration ==
    /\ text = NoText
    /\ totalDuration = Zero
    /\ sentences = <<>>
    /\ currentTime = Zero
    /\ input = <<>>

Init ==
    /\ pc = "start"
    /\ \E n \in 0..MaxWords :
          \E cs \in [1..n -> WordChoices] :
              /\ n > 0 => cs[1][3] = Zero
              /\ words = BuildWords(cs, 1, <<>>)
    /\ Chronological(words)
    /\ opts \in OptionSets
    /\ i = 0
    /\ currentWords = <<>>
    /\ currentStartTime = Zero
    /\ segments = <<>>
    /\ result = <<>>
    /\ threw = FALSE
    /\ nextId = 1
    /\ IdleDuration
    /\ IdleRender

\* the guard left out
IsEmptyWordList_NoGuard(ws) == FALSE

\* the guard `words.length === 0`
IsEmptyWordList(ws) == Len(ws) = 0

\* entry of splitSubtitles up to the loop: the empty guard, then
\* currentStartTime = words[0].startTime (a TypeError on an empty list)
SplitStart ==
    /\ pc = "start"
    /\ IF IsEmptyWordList(words)
       THEN /\ pc' = "done"
            /\ result' = <<>>
            /\ UNCHANGED <<currentStartTime, threw>>
       ELSE IF Len(words) = 0
       THEN /\ pc' = "done"
            /\ threw' = TRUE
            /\ UNCHANGED <<currentStartTime, result>>
       ELSE /\ pc' = "scan"
            /\ currentStartTime' = words[1].startTime
            /\ UNCHANGED <<result, threw>>
    /\ UNCHANGED <<renderVars, words, opts, i, currentWords, segments, nextId, text,
                   totalDuration, sentences, currentTime, input>>

\* one iteration of the for loop (i is the 0-based index of the source)
ScanStep ==
    /\ pc = "scan"
    /\ i < Len(words)
    /\ LET word == words[i + 1]
           nextWord == IF i + 2 <= Len(words) THEN words[i + 2] ELSE Undefined
           pushed == Append(currentWords, word)
           currentText == Join(WordTexts(pushed))
           currentDuration == Sub(word.endTime, currentStartTime)
           currentCharCount == CharCount(currentText)
           shouldSplit == checkShouldSplit(currentDuration, currentCharCount,
                                           currentText, word, nextWord, opts)
       IN  IF shouldSplit
           THEN /\ segments' = Append(segments,
                                      createSegment(pushed, currentStartTime, nextId))
                /\ nextId' = nextId + 1
                /\ currentWords' = <<>>
                /\ currentStartTime' =
                       IF nextWord # Undefined THEN nextWord.startTime
                       ELSE currentStartTime
           ELSE /\ currentWords' = pushed
                /\ UNCHANGED <<segments, nextId, currentStartTime>>
    /\ i' = i + 1
    /\ UNCHANGED <<renderVars, pc, words, opts, result, threw, text, totalDuration,
                   sentences, currentTime, input>>

\* loop exit and the flush of the words that remain
Flush ==
    /\ pc = "scan"
    /\ i >= Len(words)
    /\ IF Len(currentWords) > 0
       THEN /\ segments' = Append(segments,
                                  createSegment(currentWords, currentStartTime, nextId))
            /\ nextId' = nextId + 1
       ELSE UNCHANGED <<segments, nextId>>
    /\ pc' = "merge"
    /\ UNCHANGED <<renderVars, words, opts, i, currentWords, currentStartTime, result,
                   threw, text, totalDuration, sentences, currentTime, input>>

\* return mergeShortSegments(segments, opts)
Merge ==
    /\ pc = "merge"
    /\ LET m == mergeShortSegments(segments, nextId, opts)
       IN  /\ result' = m.result
           /\ nextId' = m.nextId
    /\ pc' = "done"
    /\ UNCHANGED <<renderVars, words, opts, i, currentWords, currentStartTime, segments,
                   threw, text, totalDuration, sentences, currentTime, input>>

Next == SplitStart \/ ScanStep \/ Flush \/ Merge

Spec == Init /\ [][Next]_vars

-----------------------------------------------------------------------------
(* String.prototype.split with a regular expression *)

\* an element of the array split returns: a string, or `undefined` for a
\* capture group that took no part in the match
Str(s) == [undefined |-> FALSE, str |-> s]
UndefinedElement == [undefined |-> TRUE, str |-> <<>>]

NoMatch == [end |-> -1, captures |-> <<>>]

\* the match of the pattern that starts exactly at 0-based position q of s:
\* its end (exclusive) and what its capture groups contribute to the array
\*   "sentence"  /(?<=[.?!。？！])\s*/
\*   "natural"   opts.naturalBreakPattern
\*   "spaces"    /\s+/
MatchAt(kind, s, q) ==
    IF kind = "sentence"
    THEN IF q >= 1 /\ s[q] \in SentenceDelimiterChars
         THEN [end |-> SkipSpaces(s, q), captures |-> <<>>]
         ELSE NoMatch
    ELSE IF kind = "natural"
    THEN IF q < Len(s) /\ s[q + 1] \in NaturalBreakChars
         THEN [end |-> q + 1, captures |-> <<UndefinedElement>>]
         ELSE LET c == ConjunctionAt(s, q)
              IN  IF c.end # -1
                  THEN [end |-> c.end, captures |-> <<Str(c.capture)>>]
                  ELSE NoMatch
    ELSE IF q < Len(s) /\ IsSpace(s[q + 1])
         THEN [end |-> SkipSpaces(s, q), captures |-> <<>>]
         ELSE NoMatch

\* the loop of split: p is the end of the last separator, q the position tried
RECURSIVE SplitLoop(_, _, _, _, _)
SplitLoop(kind, s, p, q, acc) ==
    IF q >= Len(s) THEN Append(acc, Str(SubSeq(s, p + 1, Len(s))))
    ELSE LET mm == MatchAt(kind, s, q)
         IN  IF mm.end = -1 \/ mm.end = p
             THEN SplitLoop(kind, s, p, q + 1, acc)
             ELSE SplitLoop(kind, s, mm.end, mm.end,
                            Append(acc, Str(SubSeq(s, p + 1, q))) \o mm.captures)

\* s.split(pattern)
Split(kind, s) ==
    IF Len(s) = 0
    THEN (IF MatchAt(kind, s, 0).end # -1 THEN <<>> ELSE <<Str(<<>>)>>)
    ELSE SplitLoop(kind, s, 0, 0, <<>>)

\* the strings of an array without undefined elements
Strings(arr) == [k \in 1..Len(arr) |-> arr[k].str]

-----------------------------------------------------------------------------
(* splitIntoSentences, splitByWordCount, splitLongSentence *)

\* text.split(...).map(s => s.trim()).filter(s => s.length > 0)
\* splitIntoSentences without the filter on empty sentences
splitIntoSentences_NoFilter(t) ==
    LET parts == Strings(Split("sentence", t))
    IN  [k \in 1..Len(parts) |-> Trim(parts[k])]

splitIntoSentences(t) ==
    LET parts == Strings(Split("sentence", t))
        trimmed == [k \in 1..Len(parts) |-> Trim(parts[k])]
    IN  SelectSeq(trimmed, LAMBDA x : Len(x) > 0)

\* words.slice(from, to), 0-based, `to` exclusive
Slice(ws, from, to) ==
    SubSeq(ws, from + 1, IF to < Len(ws) THEN to ELSE Len(ws))

\* WordCountLoop without currentTime += segmentDuration
RECURSIVE WordCountLoop_TimeNotAdvanced(_, _, _, _, _, _, _)
WordCountLoop_TimeNotAdvanced(ws, k, wordsPerSegment, durationPerWord, time, acc, id) ==
    IF k >= Len(ws) THEN [segments |-> acc, nextId |-> id]
    ELSE LET segmentWords == Slice(ws, k, k + wordsPerSegment)
             segmentDuration == Mul(Q(Len(segmentWords), 1), durationPerWord)
             seg == [id |-> id,
                     text |-> Trim(Join(segmentWords)),
                     startTime |-> time,
                     endTime |-> Add(time, segmentDuration),
                     words |-> <<>>,
                     duration |-> segmentDuration]
         IN  WordCountLoop_TimeNotAdvanced(ws, k + wordsPerSegment,
                           wordsPerSegment, durationPerWord, time,
                           Append(acc, seg), id + 1)

\* the for loop of splitByWordCount from 0-based index k
RECURSIVE WordCountLoop(_, _, _, _, _, _, _)
WordCountLoop(ws, k, wordsPerSegment, durationPerWord, time, acc, id) ==
    IF k >= Len(ws) THEN [segments |-> acc, nextId |-> id]
    ELSE LET segmentWords == Slice(ws, k, k + wordsPerSegment)
             segmentDuration == Mul(Q(Len(segmentWords), 1), durationPerWord)
             seg == [id |-> id,
                     text |-> Trim(Join(segmentWords)),
                     startTime |-> time,
                     endTime |-> Add(time, segmentDuration),
                     words |-> <<>>,
                     duration |-> segmentDuration]
         IN  WordCountLoop(ws, k + wordsPerSegment, wordsPerSegment,
                           durationPerWord, Add(time, segmentDuration),
                           Append(acc, seg), id + 1)

\* splitByWordCount sizing the chunks by minDuration
splitByWordCount_UsesMinDuration(ws, startTime, total, o, id) ==
    LET totalWords == Len(ws)
        durationPerWord == Div(total, Q(totalWords, 1))
        wordsPerSegment == Ceil(Div(o.minDuration, durationPerWord))
    IN  WordCountLoop(ws, 0, wordsPerSegment, durationPerWord, startTime,
                      <<>>, id)

splitByWordCount(ws, startTime, total, o, id) ==
    LET totalWords == Len(ws)
        durationPerWord == Div(total, Q(totalWords, 1))
        wordsPerSegment == Ceil(Div(o.targetDuration, durationPerWord))
    IN  WordCountLoop(ws, 0, wordsPerSegment, durationPerWord, startTime,
                      <<>>, id)

\* the for loop of splitLongSentence over parts, from part k (1-based)
RECURSIVE PartsLoop(_, _, _, _, _, _, _, _)
PartsLoop(parts, k, totalChars, total, time, acc, id, o) ==
    IF k > Len(parts) THEN [segments |-> acc, nextId |-> id]
    ELSE LET part == parts[k]
             partChars == CharCount(part)
             partDuration == Mul(Div(Q(partChars, 1), Q(totalChars, 1)), total)
         IN  IF Gt(partDuration, o.maxDuration)
             THEN LET sub == splitByWordCount(Strings(Split("spaces", part)),
                                              time, partDuration, o, id)
                  IN  PartsLoop(parts, k + 1, totalChars, total,
                                Add(time, partDuration),
                                acc \o sub.segments, sub.nextId, o)
             ELSE PartsLoop(parts, k + 1, totalChars, total,
                            Add(time, partDuration),
                            Append(acc, [id |-> id,
                                         text |-> Trim(part),
                                         startTime |-> time,
                                         endTime |-> Add(time, partDuration),
                                         words |-> <<>>,
                                         duration |-> partDuration]),
                            id + 1, o)

\* sentence.split(opts.naturalBreakPattern), before the filter
NaturalBreakParts(sentence) == Split("natural", sentence)

\* the filter callback p => p.trim().length > 0 reads p.trim: a TypeError
\* when p is undefined
FilterThrows(arr) == \E k \in 1..Len(arr) : arr[k].undefined

splitLongSentence(sentence, startTime, total, o, id) ==
    LET raw == NaturalBreakParts(sentence)
    IN  IF FilterThrows(raw)
        THEN [segments |-> <<>>, nextId |-> id, threw |-> TRUE]
        ELSE LET parts == SelectSeq(Strings(raw), LAMBDA x : Len(Trim(x)) > 0)
                 done ==
                     IF Len(parts) <= 1
                     THEN splitByWordCount(Strings(Split("spaces", sentence)),
                                           startTime, total, o, id)
                     ELSE PartsLoop(parts, 1, CharCount(sentence), total,
                                    startTime, <<>>, id, o)
             IN  [segments |-> done.segments, nextId |-> done.nextId,
                  threw |-> FALSE]

-----------------------------------------------------------------------------
(* splitTextByDuration *)

\* what a text is drawn from: a letter, a space, a full stop, a comma, a
\* conjunction
TextTokens ==
    { <<"a">>, <<" ">>, <<".">>, <<",">>, <<"geu", "ri", "go">> }

\* the values of totalDuration, in seconds
TotalDurations == {Q(2, 1), Q(4, 1), Q(9, 1), Q(20, 1)}

RECURSIVE Flatten(_)
Flatten(strs) ==
    IF strs = <<>> THEN <<>> ELSE strs[1] \o Flatten(Tail(strs))

IdleSplit ==
    /\ words = NoWords
    /\ currentWords = <<>>
    /\ currentStartTime = Zero

InitDur ==
    /\ pc = "duration"
    /\ \E n \in 0..MaxTokens :
          \E ts \in [1..n -> TextTokens] : text = Flatten(ts)
    /\ totalDuration \in TotalDurations
    /\ opts = DEFAULT_OPTIONS
    /\ i = 0
    /\ sentences = <<>>
    /\ currentTime = Zero
    /\ segments = <<>>
    /\ result = <<>>
    /\ threw = FALSE
    /\ nextId = 1
    /\ input = <<>>
    /\ IdleSplit
    /\ IdleRender

\* charPerSecond with text.length as the character count
charPerSecond_CountsSpaces == Div(Q(Len(text), 1), totalDuration)

\* totalChars / totalDuration
charPerSecond == Div(Q(CharCount(text), 1), totalDuration)

\* entry of splitTextByDuration: the sentences and the zero-sentence guard
DurStart ==
    /\ pc = "duration"
    /\ sentences' = splitIntoSentences(text)
    /\ IF Len(sentences') = 0
       THEN pc' = "done" /\ result' = <<>>
       ELSE pc' = "sentences" /\ UNCHANGED result
    /\ UNCHANGED <<renderVars, words, opts, i, currentWords, currentStartTime, segments,
                   threw, nextId, text, totalDuration, currentTime, input>>

\* one iteration of `for (const sentence of sentences)`
DurSentence ==
    /\ pc = "sentences"
    /\ i < Len(sentences)
    /\ LET sentence == sentences[i + 1]
           sentenceChars == CharCount(sentence)
           estimatedDuration == Div(Q(sentenceChars, 1), charPerSecond)
       IN  IF Gt(estimatedDuration, opts.maxDuration)
           THEN LET sub == splitLongSentence(sentence, currentTime,
                                             estimatedDuration, opts, nextId)
                IN  IF sub.threw
                    THEN /\ threw' = TRUE
                         /\ pc' = "done"
                         /\ UNCHANGED <<segments, nextId, currentTime, i>>
                    ELSE /\ segments' = segments \o sub.segments
                         /\ nextId' = sub.nextId
                         /\ currentTime' = Add(currentTime, estimatedDuration)
                         /\ i' = i + 1
                         /\ UNCHANGED <<threw, pc>>
           ELSE /\ segments' = Append(segments,
                       [id |-> nextId,
                        text |-> Trim(sentence),
                        startTime |-> currentTime,
                        endTime |-> Add(currentTime, estimatedDuration),
                        words |-> <<>>,
                        duration |-> estimatedDuration])
                /\ nextId' = nextId + 1
                /\ currentTime' = Add(currentTime, estimatedDuration)
                /\ i' = i + 1
                /\ UNCHANGED <<threw, pc>>
    /\ UNCHANGED <<renderVars, words, opts, currentWords, currentStartTime, result, text,
                   totalDuration, sentences, input>>

\* return mergeShortSegments(segments, opts)
DurMerge ==
    /\ pc = "sentences"
    /\ i >= Len(sentences)
    /\ LET m == mergeShortSegments(segments, nextId, opts)
       IN  /\ result' = m.result
           /\ nextId' = m.nextId
    /\ pc' = "done"
    /\ UNCHANGED <<renderVars, words, opts, i, currentWords, currentStartTime, segments,
                   threw, text, totalDuration, sentences, currentTime, input>>

NextDur == DurStart \/ DurSentence \/ DurMerge

SpecDur == InitDur /\ [][NextDur]_vars

-----------------------------------------------------------------------------
(* recalculateTimings *)

\* the texts of the segments handed to recalculateTimings: empty, blank,
\* one letter, two words, three letters
SegmentTexts ==
    { <<>>, <<" ">>, <<"a">>, <<"a", " ", "a">>, <<"a", "a", "a">> }

\* the values of totalDuration handed to recalculateTimings
RecalcDurations == {Zero, Q(4, 1), Q(7, 2)}

\* the segment sequence with the texts ts, as left by an edit: ids 1.., the
\* k-th segment on [k-1, k]
EditedSegments(ts) ==
    [k \in 1..Len(ts) |->
        [id |-> k, text |-> ts[k], startTime |-> Q(k - 1, 1),
         endTime |-> Q(k, 1), words |-> <<>>, duration |-> Q(1, 1)]]

InitRecalc ==
    /\ pc = "recalculate"
    /\ \E n \in 0..MaxSegs :
          \E ts \in [1..n -> SegmentTexts] : input = EditedSegments(ts)
    /\ totalDuration \in RecalcDurations
    /\ opts = DEFAULT_OPTIONS
    /\ i = 0
    /\ sentences = <<>>
    /\ currentTime = Zero
    /\ segments = <<>>
    /\ result = <<>>
    /\ threw = FALSE
    /\ nextId = 1
    /\ text = NoText
    /\ IdleSplit
    /\ IdleRender

\* segments.reduce((sum, seg) => sum + seg.text.replace(/\s/g, '').length, 0)
RECURSIVE TotalChars(_)
TotalChars(segs) ==
    IF segs = <<>> THEN 0
    ELSE CharCount(segs[1].text) + TotalChars(Tail(segs))

\* segmentDuration with the character count taken with the spaces
SegmentDuration_CountsSpaces(segment, totalChars, total) ==
    Mul(Div(Q(Len(segment.text), 1), Q(totalChars, 1)), total)

\* (segmentChars / totalChars) * totalDuration
SegmentDuration(segment, totalChars, total) ==
    Mul(Div(Q(CharCount(segment.text), 1), Q(totalChars, 1)), total)

\* entry of recalculateTimings: the guard on the empty sequence
RecalcStart ==
    /\ pc = "recalculate"
    /\ IF Len(input) = 0
       THEN pc' = "done"
       ELSE pc' = "map"
    /\ result' = <<>>
    /\ currentTime' = Zero
    /\ UNCHANGED <<renderVars, words, opts, i, currentWords, currentStartTime, segments,
                   threw, nextId, text, totalDuration, sentences, input>>

\* one call of the map callback
RecalcStep ==
    /\ pc = "map"
    /\ i < Len(input)
    /\ LET segment == input[i + 1]
           segmentDuration ==
               SegmentDuration(segment, TotalChars(input), totalDuration)
           updated == [segment EXCEPT !.startTime = currentTime,
                                      !.endTime = Add(currentTime, segmentDuration),
                                      !.duration = segmentDuration]
       IN  /\ result' = Append(result, updated)
           /\ currentTime' = Add(currentTime, segmentDuration)
    /\ i' = i + 1
    /\ UNCHANGED <<renderVars, pc, words, opts, currentWords, currentStartTime, segments,
                   threw, nextId, text, totalDuration, sentences, input>>

\* map has visited every segment: the mapped array is returned
RecalcReturn ==
    /\ pc = "map"
    /\ i >= Len(input)
    /\ pc' = "done"
    /\ UNCHANGED <<renderVars, words, opts, i, currentWords, currentStartTime, segments,
                   result, threw, nextId, text, totalDuration, sentences,
                   currentTime, input>>

NextRecalc == RecalcStart \/ RecalcStep \/ RecalcReturn

SpecRecalc == InitRecalc /\ [][NextRecalc]_vars

-----------------------------------------------------------------------------
(* mergeShortSegments on its own, called again on what it returned *)

\* what a segment sequence is drawn from: per segment its duration and the
\* silence before it
MergeDurations == {Q(1, 2), Q(1, 1), Q(2, 1), Q(3, 1)}

MergeGaps == {Zero, Q(1, 1)}

MergeChoices == MergeDurations \X MergeGaps

\* the segments described by the choices cs, one word each, from time `from`
RECURSIVE BuildSegments(_, _, _, _)
BuildSegments(cs, k, from, acc) ==
    IF k > Len(cs) THEN acc
    ELSE LET startTime == Add(from, cs[k][2])
             endTime == Add(startTime, cs[k][1])
             word == [word |-> <<"a">>, startTime |-> startTime,
                      endTime |-> endTime]
         IN  BuildSegments(cs, k + 1, endTime,
                           Append(acc, createSegment(<<word>>, startTime, k)))

InitMerge ==
    /\ pc = "merger"
    /\ \E n \in 0..MaxMerge :
          \E cs \in [1..n -> MergeChoices] :
              input = BuildSegments(cs, 1, Zero, <<>>)
    /\ opts \in OptionSets
    /\ segments = input
    /\ nextId = Len(input) + 1
    /\ i = 0
    /\ result = <<>>
    /\ threw = FALSE
    /\ text = NoText
    /\ totalDuration = Zero
    /\ sentences = <<>>
    /\ currentTime = Zero
    /\ IdleSplit
    /\ IdleRender

\* one call mergeShortSegments(segments, opts)
MergeCall ==
    /\ pc = "merger"
    /\ LET m == mergeShortSegments(segments, nextId, opts)
       IN  /\ result' = m.result
           /\ nextId' = m.nextId
    /\ i' = i + 1
    /\ pc' = "merged"
    /\ UNCHANGED <<renderVars, words, opts, currentWords, currentStartTime, segments,
                   threw, text, totalDuration, sentences, currentTime, input>>

\* the caller hands the returned sequence to mergeShortSegments again
MergeAgain ==
    /\ pc = "merged"
    /\ i < MaxCalls
    /\ segments' = result
    /\ pc' = "merger"
    /\ UNCHANGED <<renderVars, words, opts, i, currentWords, currentStartTime, result,
                   threw, nextId, text, totalDuration, sentences, currentTime,
                   input>>

NextMerge == MergeCall \/ MergeAgain

SpecMerge == InitMerge /\ [][NextMerge]_vars

-----------------------------------------------------------------------------
(* renderVideoWithSubtitles: the call, its event handlers and the abort *)

\* the segmentation engine is not running
IdleEngine ==
    /\ opts = DEFAULT_OPTIONS
    /\ i = 0
    /\ segments = <<>>
    /\ result = <<>>
    /\ threw = FALSE
    /\ nextId = 1
    /\ IdleSplit
    /\ IdleDuration

\* before the call: a signal may have been supplied, nothing else exists
InitRender ==
    /\ pc = "call"
    /\ abortSignal \in {"none", "idle"}
    /\ abortedAt = "never"
    /\ listening = FALSE
    /\ cancelled = FALSE
    /\ promise = "pending"
    /\ video = "none"
    /\ mediaRecorder = "none"
    /\ stopEvent = FALSE
    /\ audioCtx = "none"
    /\ frames = 0
    /\ stage = "none"
    /\ lateComplete = FALSE
    /\ IdleEngine

\* reject(...) and resolve(...) settle a pending promise and are ignored
\* afterwards
Settle(to) == IF promise = "pending" THEN to ELSE promise

\* the owner of the signal aborts it; the 'abort' event runs the listener
\* when one is registered
Abort ==
    /\ abortSignal = "idle"
    /\ abortSignal' = "aborted"
    /\ abortedAt' = IF pc = "call" THEN "beforeCall" ELSE promise
    /\ IF listening
       THEN /\ cancelled' = TRUE
            /\ IF mediaRecorder = "recording"
               THEN mediaRecorder' = "inactive" /\ stopEvent' = TRUE
               ELSE UNCHANGED <<mediaRecorder, stopEvent>>
            /\ video' = IF video = "playing" THEN "paused" ELSE video
            /\ audioCtx' = IF audioCtx # "none" THEN "closed" ELSE audioCtx
            /\ promise' = Settle("rejected")
       ELSE UNCHANGED <<cancelled, mediaRecorder, stopEvent, video, audioCtx,
                        promise>>
    /\ UNCHANGED <<pc, splitVars, listening, frames, stage, lateComplete>>

\* the promise executor: addEventListener('abort', ...), the 'preparing'
\* progress event, the video element and its handlers
RenderCall ==
    /\ pc = "call"
    /\ listening' = (abortSignal # "none")
    /\ stage' = "preparing"
    /\ video' = "loading"
    /\ pc' = "metadata"
    /\ UNCHANGED <<splitVars, abortSignal, abortedAt, cancelled, promise,
                   mediaRecorder, stopEvent, audioCtx, frames, lateComplete>>

\* video.onloadedmetadata up to `await video.play()`
LoadedMetadata ==
    /\ pc = "metadata"
    /\ video = "loading"
    /\ IF cancelled
       THEN /\ pc' = "idle"
            /\ UNCHANGED <<audioCtx, mediaRecorder, stage, video>>
       ELSE /\ audioCtx' = "running"
            /\ mediaRecorder' = "recording"
            /\ stage' = "rendering"
            /\ video' = "playing"
            /\ pc' = "play"
    /\ UNCHANGED <<splitVars, abortSignal, abortedAt, listening, cancelled,
                   promise, stopEvent, frames, lateComplete>>

\* video.onerror
VideoError ==
    /\ pc = "metadata"
    /\ video = "loading"
    /\ video' = "error"
    /\ promise' = Settle("rejected")
    /\ pc' = "idle"
    /\ UNCHANGED <<splitVars, abortSignal, abortedAt, listening, cancelled,
                   mediaRecorder, stopEvent, audioCtx, frames, stage,
                   lateComplete>>

\* one call of renderFrame
RenderFrame ==
    /\ IF cancelled
       THEN /\ pc' = "idle"
            /\ UNCHANGED <<mediaRecorder, stopEvent, frames, stage>>
       ELSE IF video \in {"ended", "paused"}
       THEN /\ mediaRecorder' = "inactive"
            /\ stopEvent' = TRUE
            /\ pc' = "idle"
            /\ UNCHANGED <<frames, stage>>
       ELSE /\ frames < MaxFrames
            /\ frames' = frames + 1
            /\ stage' = "rendering"
            /\ pc' = "frame"
            /\ UNCHANGED <<mediaRecorder, stopEvent>>
    /\ UNCHANGED <<splitVars, abortSignal, abortedAt, listening, cancelled,
                   promise, video, audioCtx, lateComplete>>

\* video.play() was fulfilled: the handler goes on to renderFrame()
PlayResolved ==
    /\ pc = "play"
    /\ video \in {"playing", "ended"}
    /\ RenderFrame

\* video.play() was rejected by the pause() of the abort listener: the
\* handler ends with the exception
PlayRejected ==
    /\ pc = "play"
    /\ video = "paused"
    /\ pc' = "idle"
    /\ UNCHANGED <<splitVars, renderVars>>

\* the callback of requestAnimationFrame(renderFrame)
AnimationFrame ==
    /\ pc = "frame"
    /\ RenderFrame

\* the video plays to its end
VideoEnds ==
    /\ pc \in {"play", "frame"}
    /\ video = "playing"
    /\ video' = "ended"
    /\ UNCHANGED <<pc, splitVars, abortSignal, abortedAt, listening,
                   cancelled, promise, mediaRecorder, stopEvent, audioCtx,
                   frames, stage, lateComplete>>

\* mediaRecorder.onstop
RecorderStop ==
    /\ stopEvent
    /\ stopEvent' = FALSE
    /\ IF cancelled
       THEN UNCHANGED <<stage, promise, lateComplete>>
       ELSE /\ stage' = "complete"
            /\ lateComplete' = (lateComplete \/ abortSignal = "aborted")
            /\ promise' = Settle("resolved")
    /\ UNCHANGED <<pc, splitVars, abortSignal, abortedAt, listening,
                   cancelled, video, mediaRecorder, audioCtx, frames>>

NextRender ==
    \/ Abort
    \/ RenderCall
    \/ LoadedMetadata
    \/ VideoError
    \/ PlayResolved
    \/ PlayRejected
    \/ AnimationFrame
    \/ VideoEnds
    \/ RecorderStop

SpecRender == InitRender /\ [][NextRender]_vars

-----------------------------------------------------------------------------
(* Properties of splitSubtitles *)

\* the words of the segments of segs, concatenated in order
RECURSIVE ConcatWords(_)
ConcatWords(segs) ==
    IF segs = <<>> THEN <<>>
    ELSE segs[1].words \o ConcatWords(Tail(segs))

Ids(segs) == {segs[k].id : k \in 1..Len(segs)}

\* a segment of the result that the merger created (its id is fresh)
IsMerged(seg) == seg.id \notin Ids(segments)

\* C1: when splitSubtitles has returned on a non-empty word list, the words of
\* the returned segments, concatenated in order, are the input word list
C1_Coverage ==
    (pc = "done" /\ words # <<>> /\ text = NoText /\ input = <<>>)
        => ConcatWords(result) = words

\* a call on a full-length word list in which the merger fused a pair and
\* kept another segment
C1_Witness ==
    /\ pc = "done"
    /\ Len(words) = MaxWords
    /\ Len(result) >= 2
    /\ \E k \in 1..Len(result) : IsMerged(result[k])

\* number of input words held by the first k segments of segs
RECURSIVE WordsUpTo(_, _)
WordsUpTo(segs, k) ==
    IF k = 0 THEN 0 ELSE Len(segs[k].words) + WordsUpTo(segs, k - 1)

\* C2: every segment the scan has pushed is within both ceilings, unless it
\* holds a single word or was closed at the last word of the input
C2_HardCeilingsPreMerge ==
    (words # <<>>) =>
        \A k \in 1..Len(segments) :
            LET seg == segments[k]
            IN  (Len(seg.words) > 1 /\ WordsUpTo(segments, k) < Len(words))
                    => /\ Le(seg.duration, opts.maxDuration)
                       /\ CharCount(seg.text) <= opts.maxCharacters

\* C3: every segment the merger creates by fusing two segments has
\* duration <= maxDuration
C3_MergeWithinCeiling ==
    (pc = "done" /\ words # <<>>) =>
        \A k \in 1..Len(result) :
            IsMerged(result[k]) => Le(result[k].duration, opts.maxDuration)

\* two adjacent segments that are both short and could have been fused
BothShortAndFit(a, b) ==
    /\ Lt(a.duration, opts.minDuration)
    /\ Lt(b.duration, opts.minDuration)
    /\ Le(Add(a.duration, b.duration), opts.maxDuration)

\* C4 as stated: after one call of the merger no two adjacent segments of the
\* output are both shorter than minDuration with a sum <= maxDuration
C4_MergeThresholdAll ==
    (pc = "done" /\ words # <<>>) =>
        \A k \in 1..(Len(result) - 1) :
            ~BothShortAndFit(result[k], result[k + 1])

\* C4 amended: after one call of the merger no two adjacent segments of the
\* output that were both carried over unmerged are both shorter than
\* minDuration with a sum <= maxDuration
C4_MergeThresholdUnmerged ==
    (pc = "done" /\ words # <<>>) =>
        \A k \in 1..(Len(result) - 1) :
            (~IsMerged(result[k]) /\ ~IsMerged(result[k + 1]))
                => ~BothShortAndFit(result[k], result[k + 1])

\* the merger ran over three segments, fused one pair, and two short
\* segments stay adjacent and unmerged because their sum exceeds the ceiling
C4_Witness ==
    /\ pc = "done"
    /\ Len(segments) >= 2
    /\ \E k \in 1..(Len(result) - 1) :
           /\ ~IsMerged(result[k])
           /\ ~IsMerged(result[k + 1])
           /\ Lt(result[k].duration, opts.minDuration)
           /\ Lt(result[k + 1].duration, opts.minDuration)

\* C5: consecutive returned segments never invert: s[k].endTime is at most
\* s[k+1].startTime
C5_MonotonicNonOverlap ==
    (pc = "done" /\ words # <<>>) =>
        \A k \in 1..(Len(result) - 1) :
            Le(result[k].endTime, result[k + 1].startTime)

\* C10: splitSubtitles on an empty word list returns the empty sequence and
\* raises nothing
C10_Emptiness ==
    (pc = "done" /\ words = <<>> /\ text = NoText /\ input = <<>>)
        => (result = <<>> /\ ~threw)

\* a finished call on the empty word list
C10_Witness ==
    /\ pc = "done"
    /\ words = <<>>
    /\ text = NoText
    /\ input = <<>>
    /\ result = <<>>

-----------------------------------------------------------------------------
(* Properties of splitTextByDuration *)

RECURSIVE SumDurations(_)
SumDurations(segs) ==
    IF segs = <<>> THEN Zero
    ELSE Add(segs[1].duration, SumDurations(Tail(segs)))

\* C6: when splitTextByDuration is over on a text with at least one sentence,
\* it has returned segments whose durations sum to totalDuration
C6_DurationsSumToTotal ==
    (pc = "done" /\ sentences # <<>>)
        => (~threw /\ SumDurations(result) = totalDuration)

\* C7: splitTextByDuration with the default options ends without an exception
C7_NeverThrows ==
    (pc = "done" /\ opts = DEFAULT_OPTIONS) => ~threw

-----------------------------------------------------------------------------
(* Properties of recalculateTimings *)

\* C8: on a non-empty sequence with a positive total character count the
\* returned timeline starts at 0, each segment starts where the one before
\* ends, each duration is totalDuration x (segment chars / total chars), and
\* the last segment ends at totalDuration
C8_RecalculatedTimeline ==
    (pc = "done" /\ input # <<>> /\ TotalChars(input) > 0) =>
        /\ Len(result) = Len(input)
        /\ result[1].startTime = Zero
        /\ \A k \in 2..Len(result) :
               result[k].startTime = result[k - 1].endTime
        /\ \A k \in 1..Len(result) :
               /\ result[k].duration =
                      Mul(totalDuration,
                          Div(Q(CharCount(input[k].text), 1),
                              Q(TotalChars(input), 1)))
               /\ result[k].endTime =
                      Add(result[k].startTime, result[k].duration)
        /\ result[Len(result)].endTime = totalDuration

\* a finished recalculation of a full-length sequence with a blank segment
\* next to segments that carry spaces and letters
C8_Witness ==
    /\ pc = "done"
    /\ Len(input) = MaxSegs
    /\ TotalChars(input) > 0
    /\ totalDuration # Zero
    /\ \E k \in 1..Len(input) : CharCount(input[k].text) = 0
    /\ \E k \in 1..Len(input) :
           CharCount(input[k].text) \notin {0, Len(input[k].text)}
    /\ Len(result) = Len(input)

\* C9: on a non-empty sequence whose total character count is 0 no timing of
\* the result is NaN or infinite
C9_ZeroCharacterGuard ==
    (pc = "done" /\ input # <<>> /\ TotalChars(input) = 0) =>
        \/ threw
        \/ \A k \in 1..Len(result) :
               /\ IsFinite(result[k].startTime)
               /\ IsFinite(result[k].endTime)
               /\ IsFinite(result[k].duration)

-----------------------------------------------------------------------------
(* Properties of the merger inside splitSubtitles *)

\* index in `segments` of the segment that opens the k-th segment of `result`
PairIndex(k) ==
    CHOOSE j \in 1..Len(segments) :
        WordsUpTo(segments, j - 1) = WordsUpTo(result, k - 1)

\* C11 as stated: the duration of every fused segment is
\* current.duration + next.duration
C11_MergedDurationIsSum ==
    (pc = "done" /\ words # <<>>) =>
        \A k \in 1..Len(result) :
            IsMerged(result[k]) =>
                result[k].duration =
                    Add(segments[PairIndex(k)].duration,
                        segments[PairIndex(k) + 1].duration)

-----------------------------------------------------------------------------
(* Properties of the scan of splitSubtitles *)

\* positions in `words` of the first and the last word of segments[k]
SegFirst(k) == WordsUpTo(segments, k - 1) + 1

SegLast(k) == WordsUpTo(segments, k)

\* elapsed time at word j of a segment that started at word f
Elapsed(f, j) == Sub(words[j].endTime, words[f].startTime)

\* the buffer text and its character count from word f to word j
BufferText(f, j) == Join(WordTexts(SubSeq(words, f, j)))

\* no sentence end, natural break or clause-starting word anywhere, no
\* silence of SilenceGap or more, and fewer characters than maxCharacters
CueFree ==
    /\ \A j \in 1..Len(words) :
           /\ ~TestSentenceDelimiters(words[j].word)
           /\ ~TestKoreanSentenceEndings(words[j].word)
           /\ ~TestStartsNewClause(words[j].word)
           /\ j < Len(words) =>
                  Lt(Sub(words[j + 1].startTime, words[j].endTime), SilenceGap)
    /\ ~TestNaturalBreak(BufferText(1, Len(words)))
    /\ CharCount(BufferText(1, Len(words))) < opts.maxCharacters

\* position in `words` of the first word of the buffer
BufferFirst == WordsUpTo(segments, Len(segments)) + 1

\* C12: on a cue-free stream every non-final segment closes at the first word
\* whose end time minus the segment start reaches maxDuration, neither
\* earlier nor later
C12_ForcedSplitAtBoundary ==
    CueFree =>
        /\ \A k \in 1..Len(segments) :
               SegLast(k) < Len(words) =>
                   /\ segments[k].startTime = words[SegFirst(k)].startTime
                   /\ Ge(Elapsed(SegFirst(k), SegLast(k)), opts.maxDuration)
                   /\ \A j \in SegFirst(k)..(SegLast(k) - 1) :
                          Lt(Elapsed(SegFirst(k), j), opts.maxDuration)
        /\ pc = "scan" =>
               \A j \in BufferFirst..i :
                   Lt(Elapsed(BufferFirst, j), opts.maxDuration)

\* a cue-free stream was cut before its last word, at a word that ends
\* exactly maxDuration after the segment start
C12_Witness ==
    /\ pc = "done"
    /\ CueFree
    /\ Len(segments) >= 2
    /\ Elapsed(1, SegLast(1)) = opts.maxDuration

\* C13: a non-empty cue-free word list that stays below maxDuration and
\* maxCharacters comes back as one segment from the first word's start to the
\* last word's end, its text the words joined by single spaces
C13_SingleSegment ==
    (/\ pc = "done"
     /\ words # <<>>
     /\ CueFree
     /\ \A j \in 1..Len(words) : Lt(Elapsed(1, j), opts.maxDuration)) =>
        /\ Len(result) = 1
        /\ result[1].startTime = words[1].startTime
        /\ result[1].endTime = words[Len(words)].endTime
        /\ result[1].text = BufferText(1, Len(words))

\* three cue-free words that pass targetDuration before the last one came
\* back as one segment
C13_Witness ==
    /\ pc = "done"
    /\ Len(words) = MaxWords
    /\ CueFree
    /\ \A j \in 1..Len(words) : Lt(Elapsed(1, j), opts.maxDuration)
    /\ Ge(Elapsed(1, 2), opts.targetDuration)
    /\ Len(result) = 1

\* C17: when the scan of a non-empty word list ends, the buffer is empty, so
\* the flush after the loop emits nothing, and the last input word is the
\* last word of the last segment
C17_LastWordFlush ==
    (pc = "scan" /\ i = Len(words)) =>
        /\ currentWords = <<>>
        /\ segments # <<>>
        /\ SegLast(Len(segments)) = Len(words)
        /\ LET last == segments[Len(segments)].words
           IN  last[Len(last)] = words[Len(words)]

\* the scan ended on a last word that closed a segment of several words
\* below minDuration, which no rule but the last-word rule closes
C17_Witness ==
    /\ pc = "scan"
    /\ i = Len(words)
    /\ currentWords = <<>>
    /\ Len(segments[Len(segments)].words) >= 2
    /\ Lt(segments[Len(segments)].duration, opts.minDuration)
    /\ CueFree

\* a hard ceiling is reached at word j of a segment that started at word f
CeilingReached(f, j) ==
    \/ Ge(Elapsed(f, j), opts.maxDuration)
    \/ CharCount(BufferText(f, j)) >= opts.maxCharacters

\* C18: a word at which the elapsed time has reached maxDuration or the
\* character count maxCharacters closes its segment: no segment and no buffer
\* holds such a word anywhere but at its end
C18_HardCeilingsDominate ==
    /\ \A k \in 1..Len(segments) :
           \A j \in SegFirst(k)..(SegLast(k) - 1) :
               ~CeilingReached(SegFirst(k), j)
    /\ pc = "scan" =>
           \A j \in BufferFirst..i : ~CeilingReached(BufferFirst, j)

\* a segment was closed before the last word by the character ceiling alone:
\* below minDuration, with no natural break and no silence after it
C18_Witness ==
    \E k \in 1..Len(segments) :
        /\ SegLast(k) < Len(words)
        /\ CharCount(BufferText(SegFirst(k), SegLast(k))) >= opts.maxCharacters
        /\ Lt(Elapsed(SegFirst(k), SegLast(k)), opts.minDuration)
        /\ ~TestNaturalBreak(BufferText(SegFirst(k), SegLast(k)))
        /\ Lt(Sub(words[SegLast(k) + 1].startTime, words[SegLast(k)].endTime),
              SilenceGap)

\* the word is a sentence end for rule 3 of checkShouldSplit
IsSentenceEndWord(w) ==
    \/ TestSentenceDelimiters(w.word)
    \/ TestKoreanSentenceEndings(w.word)

\* segments[k] was closed before the last word and neither a hard ceiling
\* nor the sentence-end rule closed it
SoftSplitOnly(k) ==
    /\ SegLast(k) < Len(words)
    /\ ~CeilingReached(SegFirst(k), SegLast(k))
    /\ ~(/\ IsSentenceEndWord(words[SegLast(k)])
         /\ Ge(Elapsed(SegFirst(k), SegLast(k)), opts.minDuration))

\* the silence between the last word of segments[k] and the word after it
GapAfter(k) == Sub(words[SegLast(k) + 1].startTime, words[SegLast(k)].endTime)

\* C19 as stated: a split at a non-last word caused only by a softer cue
\* (natural break, silence gap, clause-starting next word) never happens
\* while the elapsed time is below targetDuration
C19_SoftCuesWaitForTarget ==
    \A k \in 1..Len(segments) :
        SoftSplitOnly(k) =>
            Ge(Elapsed(SegFirst(k), SegLast(k)), opts.targetDuration)

\* C19 amended: such a split never happens while the elapsed time is below
\* targetDuration, except on a silence of SilenceGap or more, which splits
\* once the elapsed time has reached minDuration
C19_SoftCuesWaitForTargetOrGap ==
    \A k \in 1..Len(segments) :
        SoftSplitOnly(k) =>
            \/ Ge(Elapsed(SegFirst(k), SegLast(k)), opts.targetDuration)
            \/ /\ Ge(GapAfter(k), SilenceGap)
               /\ Ge(Elapsed(SegFirst(k), SegLast(k)), opts.minDuration)

\* a natural break below targetDuration with no silence after it was not
\* split on, and a later silence split the segment below targetDuration
C19_Witness ==
    \E k \in 1..Len(segments) :
        /\ SoftSplitOnly(k)
        /\ SegLast(k) > SegFirst(k)
        /\ TestNaturalBreak(BufferText(SegFirst(k), SegFirst(k)))
        /\ Ge(Elapsed(SegFirst(k), SegFirst(k)), opts.minDuration)
        /\ Ge(GapAfter(k), SilenceGap)
        /\ Lt(Elapsed(SegFirst(k), SegLast(k)), opts.targetDuration)

\* the arguments of the call of checkShouldSplit that the scan makes next
ScanWord == words[i + 1]

ScanNextWord == IF i + 2 <= Len(words) THEN words[i + 2] ELSE Undefined

ScanText == Join(WordTexts(Append(currentWords, ScanWord)))

ScanDuration == Sub(ScanWord.endTime, currentStartTime)

ScanDecision ==
    checkShouldSplit(ScanDuration, CharCount(ScanText), ScanText, ScanWord,
                     ScanNextWord, opts)

\* the seven conditions, each evaluated on its own
SplitConditions ==
    { ScanNextWord = Undefined,
      Ge(ScanDuration, opts.maxDuration),
      CharCount(ScanText) >= opts.maxCharacters,
      IsSentenceEndWord(ScanWord) /\ Ge(ScanDuration, opts.minDuration),
      TestNaturalBreak(ScanText) /\ Ge(ScanDuration, opts.targetDuration),
      /\ ScanNextWord # Undefined
      /\ Ge(Sub(ScanNextWord.startTime, ScanWord.endTime), SilenceGap)
      /\ Ge(ScanDuration, opts.minDuration),
      /\ ScanNextWord # Undefined
      /\ Ge(ScanDuration, opts.targetDuration)
      /\ TestStartsNewClause(ScanNextWord.word) }

-----------------------------------------------------------------------------
(* Properties of splitTextByDuration on in-range and empty texts *)

\* totalDuration x (characters of sentence k / characters of the text)
Estimated(k) ==
    Mul(totalDuration,
        Div(Q(CharCount(sentences[k]), 1), Q(CharCount(text), 1)))

RECURSIVE EstimatedBefore(_)
EstimatedBefore(k) ==
    IF k <= 1 THEN Zero ELSE Add(EstimatedBefore(k - 1), Estimated(k - 1))

AllSentencesInRange ==
    \A k \in 1..Len(sentences) :
        /\ Ge(Estimated(k), opts.minDuration)
        /\ Le(Estimated(k), opts.maxDuration)

\* C14: when every sentence's estimated duration lies within
\* [minDuration, maxDuration], splitTextByDuration returns one segment per
\* sentence in order, with no words, starting at the sum of the estimated
\* durations before it and lasting totalDuration x chars / totalChars
C14_OneSegmentPerSentence ==
    (pc = "done" /\ sentences # <<>> /\ AllSentencesInRange) =>
        /\ ~threw
        /\ Len(result) = Len(sentences)
        /\ \A k \in 1..Len(result) :
               /\ result[k].text = sentences[k]
               /\ result[k].words = <<>>
               /\ result[k].startTime = EstimatedBefore(k)
               /\ result[k].duration = Estimated(k)

\* a text of two sentences separated by whitespace, both in range, was split
C14_Witness ==
    /\ pc = "done"
    /\ Len(sentences) = 2
    /\ Len(text) > CharCount(text)
    /\ AllSentencesInRange
    /\ Len(result) = 2

\* C15: on a text with no non-whitespace character splitTextByDuration
\* returns the empty sequence from its guard, before any sentence is timed
C15_ZeroSentenceGuard ==
    (pc = "done" /\ CharCount(text) = 0) =>
        /\ result = <<>>
        /\ segments = <<>>
        /\ sentences = <<>>
        /\ i = 0
        /\ ~threw

\* a whitespace-only text and the empty text were both given
C15_Witness ==
    /\ pc = "done"
    /\ text # <<>>
    /\ CharCount(text) = 0
    /\ result = <<>>

-----------------------------------------------------------------------------
(* Properties of the segments splitSubtitles returns *)

\* at least one word, from the first word's start to the last word's end,
\* the duration being the difference
WellShaped(seg) ==
    /\ Len(seg.words) >= 1
    /\ seg.startTime = seg.words[1].startTime
    /\ seg.endTime = seg.words[Len(seg.words)].endTime
    /\ seg.duration = Sub(seg.endTime, seg.startTime)

\* C21: every segment splitSubtitles returns, made by the scan or by a merge,
\* has at least one word, starts at its first word's startTime, ends at its
\* last word's endTime and has duration endTime - startTime
C21_SegmentShape ==
    (pc = "done" /\ words # <<>>) =>
        \A k \in 1..Len(result) : WellShaped(result[k])

\* the result holds a segment fused across a silence and one left as scanned
C21_Witness ==
    /\ pc = "done"
    /\ \E k \in 1..Len(result) :
           /\ IsMerged(result[k])
           /\ segments[PairIndex(k) + 1].startTime
                  # segments[PairIndex(k)].endTime
    /\ \E k \in 1..Len(result) : ~IsMerged(result[k])

-----------------------------------------------------------------------------
(* Properties of mergeShortSegments *)

\* m is the fusion of current and next
IsFusion(m, current, next) ==
    /\ m.text = current.text \o <<" ">> \o next.text
    /\ m.startTime = current.startTime
    /\ m.endTime = next.endTime
    /\ m.words = current.words \o next.words

\* out from position j on is segs from position k on, each element either one
\* segment of segs or the fusion of the next two
RECURSIVE PairwiseFrom(_, _, _, _)
PairwiseFrom(segs, k, out, j) ==
    IF j > Len(out) THEN k > Len(segs)
    ELSE \/ /\ k <= Len(segs)
            /\ out[j] = segs[k]
            /\ PairwiseFrom(segs, k + 1, out, j + 1)
         \/ /\ k + 1 <= Len(segs)
            /\ out[j].id \notin Ids(segs)
            /\ IsFusion(out[j], segs[k], segs[k + 1])
            /\ PairwiseFrom(segs, k + 2, out, j + 1)

\* C22: after one call of mergeShortSegments every output segment is one
\* input segment or the fusion of exactly two adjacent input segments, the
\* output taking the input segments in order, each once; n input segments
\* give at least ceil(n / 2) output segments
C22_OnePassPairwise ==
    pc = "merged" =>
        /\ PairwiseFrom(segments, 1, result, 1)
        /\ 2 * Len(result) >= Len(segments)

\* a call fused the first two of three segments into a segment that is still
\* short and left it next to the third, which it could have taken in
C22_Witness ==
    /\ pc = "merged"
    /\ Len(segments) = 3
    /\ Len(result) = 2
    /\ result[1].id \notin Ids(segments)
    /\ ShouldMerge(result[1], result[2], opts)

\* the segments of xs whose id occurs in ys
WithIdIn(xs, ys) == SelectSeq(xs, LAMBDA x : x.id \in Ids(ys))

\* C23: mergeShortSegments returns a sequence of at most one element
\* unchanged, and the segments of a longer sequence that are not part of a
\* merged pair are in the output with every field unchanged, in their order
C23_MergerFrame ==
    pc = "merged" =>
        /\ Len(segments) <= 1 => result = segments
        /\ WithIdIn(result, segments) = WithIdIn(segments, result)
        /\ Len(segments) = Len(WithIdIn(result, segments))
               + 2 * (Len(result) - Len(WithIdIn(result, segments)))

\* a call kept a segment before a merged pair and another after it
C23_Witness ==
    /\ pc = "merged"
    /\ Len(segments) = 4
    /\ Len(result) = 3
    /\ result[1] = segments[1]
    /\ result[2].id \notin Ids(segments)
    /\ result[3] = segments[4]

\* C24: a call of mergeShortSegments on what it returned never returns more
\* segments than it was given, and from the n-th call on of a run that
\* started with n segments no call merges anything
C24_MergeConvergence ==
    pc = "merged" =>
        /\ Len(result) <= Len(segments)
        /\ (i >= Len(input) /\ i >= 1) => result = segments

\* three segments took two merging calls: the bound n - 1 is reached
C24_Witness ==
    /\ pc = "merged"
    /\ Len(input) = 3
    /\ i = 2
    /\ result # segments
    /\ Len(result) = 1

\* segs[k] is below minDuration and is last or has a successor that would
\* bring the sum above maxDuration
ShortAndBlocked(segs, k) ==
    /\ Lt(segs[k].duration, opts.minDuration)
    /\ \/ k = Len(segs)
       \/ Gt(Add(segs[k].duration, segs[k + 1].duration), opts.maxDuration)

InResult(seg) == \E j \in 1..Len(result) : result[j] = seg

\* C28 as stated: a segment below minDuration that is last, or whose
\* successor would bring the sum above maxDuration, is emitted unmerged
C28_ForwardOnly ==
    pc = "merged" =>
        \A k \in 1..Len(segments) :
            ShortAndBlocked(segments, k) => InResult(segments[k])

\* C28 amended: such a segment is emitted unmerged when the segment before it
\* is not below minDuration, also when the two would fit maxDuration; it is
\* only ever fused as the successor of a segment that is below minDuration
C28_ForwardOnlyAfterLong ==
    pc = "merged" =>
        \A k \in 1..Len(segments) :
            /\ (ShortAndBlocked(segments, k)
                /\ (k > 1 => Ge(segments[k - 1].duration, opts.minDuration)))
                   => InResult(segments[k])
            /\ (ShortAndBlocked(segments, k) /\ ~InResult(segments[k]))
                   => \E j \in 1..Len(result) :
                          /\ result[j].id \notin Ids(segments)
                          /\ IsFusion(result[j], segments[k - 1], segments[k])
                          /\ Lt(segments[k - 1].duration, opts.minDuration)

\* a short last segment was emitted unmerged after a segment that is not
\* short and with which it fits maxDuration
C28_Witness ==
    /\ pc = "merged"
    /\ \E k \in 2..Len(segments) :
           /\ k = Len(segments)
           /\ Lt(segments[k].duration, opts.minDuration)
           /\ Ge(segments[k - 1].duration, opts.minDuration)
           /\ Le(Sub(segments[k].endTime, segments[k - 1].startTime),
                 opts.maxDuration)
           /\ InResult(segments[k])

-----------------------------------------------------------------------------
(* Properties of the subdivision in splitTextByDuration *)

\* C25: every segment splitTextByDuration returns has duration <= maxDuration
C25_DurationPathCeiling ==
    (pc = "done" /\ ~threw) =>
        \A k \in 1..Len(result) : Le(result[k].duration, opts.maxDuration)

\* the text is one sentence with no natural break whose estimated duration,
\* totalDuration, is above maxDuration, and the sentence loop has handled it:
\* `segments` is what splitByWordCount returned for its words from time 0
WordCountApplied ==
    /\ pc = "sentences"
    /\ Len(sentences) = 1
    /\ i = 1
    /\ ~TestNaturalBreak(sentences[1])
    /\ Gt(totalDuration, opts.maxDuration)

\* sentence.split(/\s+/) of the one sentence
SentenceWords == Strings(Split("spaces", sentences[1]))

\* totalDuration / words.length
PerWord == Div(totalDuration, Q(Len(SentenceWords), 1))

\* the least k with k x (d / n) >= targetDuration
ChunkSize ==
    CHOOSE k \in 1..Len(SentenceWords) :
        /\ Ge(Mul(Q(k, 1), PerWord), opts.targetDuration)
        /\ Lt(Mul(Q(k - 1, 1), PerWord), opts.targetDuration)

\* the words of chunk j, of ChunkSize words but for the last one
Chunk(j) ==
    SubSeq(SentenceWords, (j - 1) * ChunkSize + 1,
           IF j * ChunkSize < Len(SentenceWords) THEN j * ChunkSize
           ELSE Len(SentenceWords))

\* C26: splitByWordCount cuts n words into consecutive chunks of
\* k = ceil(targetDuration / (d / n)) words, the last one possibly shorter,
\* each a segment of (its word count) x d / n seconds that starts where the
\* one before ends, the first at the start time, the durations summing to d
C26_WordCountSplitting ==
    WordCountApplied =>
        /\ (Len(segments) - 1) * ChunkSize < Len(SentenceWords)
        /\ Len(segments) * ChunkSize >= Len(SentenceWords)
        /\ \A j \in 1..Len(segments) :
               /\ segments[j].text = Join(Chunk(j))
               /\ segments[j].duration = Mul(Q(Len(Chunk(j)), 1), PerWord)
               /\ segments[j].startTime =
                      IF j = 1 THEN Zero ELSE segments[j - 1].endTime
               /\ segments[j].endTime =
                      Add(segments[j].startTime, segments[j].duration)
        /\ SumDurations(segments) = totalDuration

\* three words were cut into a chunk of two and a last chunk of one
C26_Witness ==
    /\ WordCountApplied
    /\ Len(SentenceWords) = 3
    /\ ChunkSize = 2
    /\ Len(segments) = 2

\* C29: when splitTextByDuration returns normally, the first segment starts
\* at 0 and every later segment starts where the one before it ends
C29_DurationPathContiguity ==
    (pc = "done" /\ ~threw /\ result # <<>>) =>
        /\ result[1].startTime = Zero
        /\ \A k \in 2..Len(result) :
               result[k].startTime = result[k - 1].endTime

\* a sentence was subdivided on a conjunction and a part of it by word count
C29_Witness ==
    /\ pc = "done"
    /\ ~threw
    /\ Len(sentences) = 1
    /\ TestNaturalBreak(sentences[1])
    /\ Len(result) >= 3

-----------------------------------------------------------------------------
(* Properties of the segments the scan closes early *)

\* C27: with minDuration <= targetDuration <= maxDuration, every segment the
\* scan closes at a word other than the last input word has elapsed time
\* >= minDuration or a character count >= maxCharacters
C27_ShortOnlyFromCharCeiling ==
    (/\ Le(opts.minDuration, opts.targetDuration)
     /\ Le(opts.targetDuration, opts.maxDuration)) =>
        \A k \in 1..Len(segments) :
            SegLast(k) < Len(words) =>
                \/ Ge(Elapsed(SegFirst(k), SegLast(k)), opts.minDuration)
                \/ CharCount(BufferText(SegFirst(k), SegLast(k)))
                       >= opts.maxCharacters

\* a silence after a word below minDuration was not split on, and the
\* segment was closed at a later word between minDuration and targetDuration
C27_Witness ==
    \E k \in 1..Len(segments) :
        /\ SegLast(k) < Len(words)
        /\ SegLast(k) > SegFirst(k)
        /\ Lt(Elapsed(SegFirst(k), SegFirst(k)), opts.minDuration)
        /\ Ge(Sub(words[SegFirst(k) + 1].startTime, words[SegFirst(k)].endTime),
              SilenceGap)
        /\ Ge(Elapsed(SegFirst(k), SegLast(k)), opts.minDuration)
        /\ Lt(Elapsed(SegFirst(k), SegLast(k)), opts.targetDuration)
        /\ CharCount(BufferText(SegFirst(k), SegLast(k))) < opts.maxCharacters

-----------------------------------------------------------------------------
(* Properties of renderVideoWithSubtitles *)

\* C30: once the signal is aborted, before the call or while the promise is
\* pending, the promise is never resolved with a blob and no 'complete'
\* progress event is reported afterwards
C30_RenderCancellation ==
    (/\ abortSignal = "aborted"
     /\ abortedAt \in {"beforeCall", "pending"}) =>
        /\ promise # "resolved"
        /\ ~lateComplete

====
